---- MODULE Spec2Model ----
(***************************************************************************)
(* Optimistic concurrency control and conflict resolution of the product   *)
(* inventory: the update / read / delete handlers of the backend           *)
(* (backend-node/src/controllers/productController.ts), the error mapping  *)
(* (utils/errors.ts) and the ProductForm client with its conflict          *)
(* resolution flow (frontend components/ProductForm.tsx).                  *)
(*                                                                         *)
(* A product row is modelled by its non-protected column `name` (the       *)
(* columns sku, category and quantity are read from the body and written   *)
(* by exactly the same statements as name), the protected column           *)
(* unit_price and the concurrency token version.                           *)
(***************************************************************************)
EXTENDS Integers, Sequences, FiniteSets, TLC

\* ------------------------------------------------------------------------
\* Bounds and value domains
\* ------------------------------------------------------------------------

\* largest version the store is allowed to reach in the model
MaxVersion == 3

\* JavaScript `undefined` for a numeric body field
Undefined == -1

\* JavaScript `undefined` for a string body field
NoName == "undefined"

ProductIds == {"1"}

\* the ids the table's sequence hands out to inserted rows
SerialIds == {"2"}

AllIds == ProductIds \cup SerialIds
Roles == {"owner", "staff"}
Names == {"X", "Y"}
Prices == {10, 15}
Handlers == {"form", "other", "queue"}

\* the two API clients that send arbitrary requests
Clients == {"form", "other"}

\* errors the record store can raise on a write (Postgres / PostgREST codes)
RowChanged ==
  [code |-> "PGRST116", message |-> "Row was updated by another transaction"]

StoreErrors ==
  { [code |-> "23505", message |-> "duplicate key value violates unique constraint"],
    [code |-> "23514", message |-> "new row violates check constraint"],
    RowChanged }

\* ------------------------------------------------------------------------
\* Rows, bodies, responses
\* ------------------------------------------------------------------------

\* the absent row
NoRow == [exists |-> FALSE, name |-> NoName, unit_price |-> Undefined, version |-> 0]

Row(n, p, v) == [exists |-> TRUE, name |-> n, unit_price |-> p, version |-> v]

Body(n, p, v) == [name |-> n, unit_price |-> p, version |-> v]

NoBody == Body(NoName, Undefined, 0)

\* an AppError (code, message, statusCode, details); absent details are
\* NoName / Undefined / 0
AppError(code, message, statusCode, field, expected, actual) ==
  [code |-> code, message |-> message, statusCode |-> statusCode,
   field |-> field, expected_version |-> expected, actual_version |-> actual]

PERMISSION_EDIT_PRICE(id) ==
  AppError("PERMISSION_EDIT_PRICE", "Staff members cannot modify unit price", 403,
           "unit_price", 0, 0)

NOT_FOUND(resource, id) ==
  AppError("NOT_FOUND", "product not found", 404, NoName, 0, 0)

\* the conflict error with its two versions exchanged
CONFLICT_Swapped(resource, id, expectedVersion, actualVersion) ==
  AppError("CONFLICT", "Stale update - product has changed", 409, NoName,
           actualVersion, expectedVersion)

CONFLICT(resource, id, expectedVersion, actualVersion) ==
  AppError("CONFLICT", "Stale update - product has changed", 409, NoName,
           expectedVersion, actualVersion)

DATABASE_ERROR(message) ==
  AppError("DATABASE_ERROR", message, 500, NoName, 0, 0)

VALIDATION_ERROR(message) ==
  AppError("VALIDATION_ERROR", message, 400, NoName, 0, 0)

\* mapSupabaseError: maps on the `code` of whatever error object it is given
mapSupabaseError(error, resource, id) ==
  IF error.code = "PGRST116" THEN NOT_FOUND(resource, id)
  ELSE IF error.code = "23505" THEN VALIDATION_ERROR("Duplicate entry detected")
  ELSE IF error.code = "23503" THEN VALIDATION_ERROR("Referenced record does not exist")
  ELSE IF error.code = "23502" THEN VALIDATION_ERROR("Required field is missing")
  ELSE DATABASE_ERROR(error.message)

\* the HTTP response: status, error envelope, and the rows of a success
Response(status, code, message, field, expected, actual, data) ==
  [status |-> status, code |-> code, message |-> message, field |-> field,
   expected_version |-> expected, actual_version |-> actual, data |-> data]

NoResponse == Response(0, "", "", NoName, 0, 0, NoRow)

sendErrorResponse(error) ==
  Response(error.statusCode, error.code, error.message, error.field,
           error.expected_version, error.actual_version, NoRow)

SuccessResponse(data) == Response(200, "", "", NoName, 0, 0, data)

\* a statement `throw mapSupabaseError(e)` inside the handlers' try block:
\* the catch clause maps the thrown AppError a second time
ThrownToResponse(error, resource, id) ==
  sendErrorResponse(mapSupabaseError(mapSupabaseError(error, resource, id), resource, id))

\* ------------------------------------------------------------------------
\* updateProduct: the checks after the read, and the update statement
\* ------------------------------------------------------------------------

\* the write guard tripping on price increases only
PriceGuardTrips_IncreaseOnly(role, body, currentProduct) ==
  /\ role = "staff"
  /\ body.unit_price # Undefined
  /\ body.unit_price > currentProduct.unit_price

\* staff may not change unit_price
PriceGuardTrips(role, body, currentProduct) ==
  /\ role = "staff"
  /\ body.unit_price # Undefined
  /\ body.unit_price # currentProduct.unit_price

VersionMismatch(body, currentProduct) == currentProduct.version # body.version

\* the early returns with the version check placed before the write guard
UpdateChecks_VersionFirst(role, id, body, currentProduct) ==
  IF ~currentProduct.exists
    THEN sendErrorResponse(NOT_FOUND("product", id))
  ELSE IF VersionMismatch(body, currentProduct)
    THEN sendErrorResponse(CONFLICT("product", id, body.version,
                                    currentProduct.version))
  ELSE IF PriceGuardTrips(role, body, currentProduct)
    THEN sendErrorResponse(PERMISSION_EDIT_PRICE(id))
  ELSE NoResponse

\* the early returns of updateProduct, in order; NoResponse when the request
\* passes all of them
UpdateChecks(role, id, body, currentProduct) ==
  IF ~currentProduct.exists
    THEN sendErrorResponse(NOT_FOUND("product", id))
  ELSE IF PriceGuardTrips(role, body, currentProduct)
    THEN sendErrorResponse(PERMISSION_EDIT_PRICE(id))
  ELSE IF VersionMismatch(body, currentProduct)
    THEN sendErrorResponse(CONFLICT("product", id, body.version,
                                    currentProduct.version))
  ELSE NoResponse

\* updateData, built from the body and the row read before the checks
UpdateData(role, body, currentProduct) ==
  [name |-> body.name,
   version |-> body.version + 1,
   unit_price |-> IF role = "owner" THEN body.unit_price
                  ELSE IF role = "staff" /\ body.unit_price # Undefined
                    THEN currentProduct.unit_price
                  ELSE Undefined]

\* UPDATE products SET <defined keys of updateData> WHERE id = :id
\* (no row matches when the row is gone; undefined keys are not sent)
ApplyUpdate(row, updateData) ==
  IF ~row.exists THEN row
  ELSE [exists |-> TRUE,
        name |-> IF updateData.name = NoName THEN row.name ELSE updateData.name,
        unit_price |-> IF updateData.unit_price = Undefined THEN row.unit_price
                       ELSE updateData.unit_price,
        version |-> updateData.version]

\* .select('version, unit_price').eq('id', id).single(): the columns the
\* update handler reads
Selected(row) ==
  [exists |-> row.exists, unit_price |-> row.unit_price, version |-> row.version]

NoSelected == Selected(NoRow)

\* getProductById's `throw mapSupabaseError(error)` when .single() finds no row
NoRowsError == [code |-> "PGRST116", message |-> "JSON object requested, multiple (or no) rows returned"]

\* ------------------------------------------------------------------------
\* ProductForm: state and the pure parts of its handlers
\* ------------------------------------------------------------------------

\* conflictData / clientData when null
NullDetails == [field |-> "null", expected_version |-> 0, actual_version |-> 0]

Details(res) ==
  [field |-> res.field, expected_version |-> res.expected_version,
   actual_version |-> res.actual_version]

\* the `product` prop: of the listed product the handlers read id and
\* unit_price (the other columns are copied into the fields at mount)
Product(id, row) == [id |-> id, unit_price |-> row.unit_price]

NoProduct == [id |-> "", unit_price |-> Undefined]

\* the unmounted form (state as created by useState)
ClosedForm ==
  [pc |-> "closed", product |-> NoProduct, name |-> NoName, unitPrice |-> 0, version |-> 1,
   error |-> "", showConflictModal |-> FALSE, conflictData |-> NullDetails,
   clientData |-> NoBody, isPermissionError |-> FALSE, productData |-> NoBody]

\* submitProduct after the fetch has returned: which branch it takes
SubmitResult(res) ==
  IF res.status = 403 /\ res.code = "PERMISSION_EDIT_PRICE" THEN "permissionError"
  ELSE IF res.status = 409 /\ res.code = "CONFLICT" THEN "conflict"
  ELSE IF res.status < 200 \/ res.status > 299 THEN "throw"
  ELSE "success"

\* the resolution modal opened without the permission flag
WithConflict_NoFlag(f, res, productData) ==
  [f EXCEPT !.conflictData = Details(res),
            !.clientData = productData,
            !.isPermissionError = FALSE,
            !.showConflictModal = TRUE]

\* the state submitProduct leaves when it opens the resolution modal
WithConflict(f, res, productData) ==
  [f EXCEPT !.conflictData = Details(res),
            !.clientData = productData,
            !.isPermissionError = (SubmitResult(res) = "permissionError"),
            !.showConflictModal = TRUE]

\* the four setters that clear the resolution modal
ClearedConflict(f) ==
  [f EXCEPT !.showConflictModal = FALSE, !.conflictData = NullDetails,
            !.clientData = NoBody, !.isPermissionError = FALSE]

\* handleConflictResolution: the version put on the resubmitted payload
ResolutionVersion(f, resolution) ==
  IF f.isPermissionError THEN f.version + 1
  ELSE IF resolution = "accept-remote" THEN f.conflictData.actual_version
  ELSE f.conflictData.actual_version + 1

\* handleConflictResolution: the payload resubmitted by a resolution
ResolutionData(f, resolution, mergedData) ==
  LET newVersion == ResolutionVersion(f, resolution)
  IN IF f.isPermissionError
       THEN Body(f.clientData.name, f.product.unit_price, newVersion)
     ELSE IF resolution = "merge-manual"
       THEN Body(mergedData.name, mergedData.unit_price, newVersion)
     ELSE Body(f.clientData.name, f.clientData.unit_price, newVersion)

\* accept-remote resubmitting the client data at the actual version
AcceptRemoteRequest_Put(f, role) ==
  [pc |-> "pending", method |-> "PUT", role |-> role, id |-> f.product.id,
   body |-> Body(f.clientData.name, f.clientData.unit_price,
                 f.conflictData.actual_version),
   currentProduct |-> NoSelected, res |-> NoResponse]

\* handleConflictResolution('accept-remote'): the one request it issues
AcceptRemoteRequest(f, role) ==
  [pc |-> "pending", method |-> "GET", role |-> role, id |-> f.product.id,
   body |-> NoBody, currentProduct |-> NoSelected, res |-> NoResponse]

\* the setters without setVersion
Adopt_KeepsVersion(f, currentProduct) ==
  [f EXCEPT !.name = currentProduct.name,
            !.unitPrice = currentProduct.unit_price]

\* handleConflictResolution('accept-remote'): the six setters that copy the
\* fetched record into the fields
Adopt(f, currentProduct) ==
  [f EXCEPT !.name = currentProduct.name,
            !.unitPrice = currentProduct.unit_price,
            !.version = currentProduct.version]

\* the resolutions the modal offers
Offered(f) ==
  IF f.isPermissionError THEN {"keep-mine", "accept-remote"}
  ELSE {"keep-mine", "accept-remote", "merge-manual"}

VARIABLES
  products,       \* the products table: id -> row
  reqs,           \* per handler: the request being served and its response
  form,           \* the ProductForm component state
  userRole,       \* role of the user signed in at the form
  accepted,       \* history: per id, the submitted versions of accepted updates
  hist,           \* history of the form's current conflict cycle
  inMemoryQueue,  \* the offline edit queue (persisted on every change)
  isProcessing,   \* the busy flag of processQueue
  passes,         \* the running invocations of processQueue
  offline,        \* isSimulatedOffline(): now < offline-simulated-until
  queueLen        \* OfflineControls: the count shown as "Queued"

vars == <<products, reqs, form, userRole, accepted, hist,
          inMemoryQueue, isProcessing, passes, offline, queueLen>>

queueVars == <<inMemoryQueue, isProcessing, passes, offline, queueLen>>

FormId == "1"

IdleReq ==
  [pc |-> "idle", method |-> "", role |-> "", id |-> "", body |-> NoBody,
   currentProduct |-> NoSelected, res |-> NoResponse]

Request(method, role, id, body) ==
  [pc |-> "pending", method |-> method, role |-> role, id |-> id, body |-> body,
   currentProduct |-> NoSelected, res |-> NoResponse]

\* a served request: the response, the row the handler had read, and of the
\* request its method, role, id and submitted version
Served(r, cur, res) ==
  [IdleReq EXCEPT !.pc = "done", !.method = r.method, !.role = r.role, !.id = r.id,
                  !.body = Body(NoName, Undefined, r.body.version),
                  !.currentProduct = cur, !.res = res]

NoHist ==
  [conflictRow |-> NoSelected, resolution |-> "", viaPermission |-> FALSE,
   remoteRow |-> NoRow, afterRemote |-> FALSE]

\* ------------------------------------------------------------------------
\* Offline edit queue: entries, the invocations of processQueue
\* ------------------------------------------------------------------------

\* most entries the queue is allowed to hold in the model
MaxQueue == 2

\* most failed deliveries of one entry in the model
MaxAttempts == 4

\* most invocations of processQueue running side by side in the model
MaxPasses == 2

PassIds == 1..MaxPasses

Min(a, b) == IF a < b THEN a ELSE b

Max(a, b) == IF a > b THEN a ELSE b

\* the delay without its ceiling
backoffDelay_Uncapped(attempts) ==
  LET base == 750
  IN base * 2^Max(0, attempts - 1)

\* backoffDelay, in milliseconds
backoffDelay(attempts) ==
  LET base == 750
      max == 5000
  IN Min(max, base * 2^Max(0, attempts - 1))

\* an item built as if it had been attempted once
QueuedEdit_Attempted(method, body) ==
  [method |-> method, body |-> body, status |-> "queued", attempts |-> 1,
   lastError |-> ""]

\* the item enqueueEdit builds (its url is that of the listed record)
QueuedEdit(method, body) ==
  [method |-> method, body |-> body, status |-> "queued", attempts |-> 0,
   lastError |-> ""]

\* the edits the pages enqueue: the delete of the listed record, and an
\* owner's rename of it carrying the version first listed
QueuedEdits == { [method |-> "DELETE", body |-> NoBody],
                 [method |-> "PUT", body |-> Body("Y", Undefined, 1)] }

\* an invocation slot of processQueue that is not running
IdlePass == [pc |-> "idle", item |-> 0, attempts |-> 0, delay |-> 0]

\* the module state of offlineQueue at load, and the mounted OfflineControls
QueueInit ==
  /\ inMemoryQueue = << >>
  /\ isProcessing = FALSE
  /\ passes = [p \in PassIds |-> IdlePass]
  /\ offline = FALSE
  /\ queueLen = 0

\* the table as seeded: the listed records at version 1, no inserted row
InitialProducts ==
  [i \in AllIds |-> IF i \in ProductIds THEN Row("X", 10, 1) ELSE NoRow]

Init ==
  /\ products = InitialProducts
  /\ reqs = [h \in Handlers |-> IdleReq]
  /\ form = ClosedForm
  /\ userRole = "owner"
  /\ accepted = [i \in AllIds |-> {}]
  /\ hist = NoHist
  /\ QueueInit

\* ------------------------------------------------------------------------
\* Backend handlers
\* ------------------------------------------------------------------------

\* updateProduct up to the second await: read the row, run the checks
UpdateProduct_Read(h) ==
  LET r == reqs[h]
      cur == Selected(products[r.id])
      early == UpdateChecks(r.role, r.id, r.body, cur)
  IN /\ r.pc = "pending"
     /\ r.method = "PUT"
     /\ cur.version < MaxVersion
     /\ reqs' = [reqs EXCEPT ![h] =
                   IF early = NoResponse
                     THEN [r EXCEPT !.pc = "fetched", !.currentProduct = cur]
                     ELSE Served(r, cur, early)]
     /\ UNCHANGED <<products, form, userRole, accepted, hist>>
     /\ UNCHANGED queueVars

\* updateProduct from the update statement to the response
UpdateProduct_Write(h) ==
  LET r == reqs[h]
      updateData == UpdateData(r.role, r.body, r.currentProduct)
      newRow == ApplyUpdate(products[r.id], updateData)
  IN /\ r.pc = "fetched"
     /\ r.method = "PUT"
     /\ products' = [products EXCEPT ![r.id] = newRow]
     /\ reqs' = [reqs EXCEPT ![h] =
                   Served(r, r.currentProduct, SuccessResponse(newRow))]
     /\ accepted' =
          IF products[r.id].exists
            THEN [accepted EXCEPT ![r.id] = @ \cup {r.body.version}]
            ELSE accepted
     /\ UNCHANGED <<form, userRole, hist>>
     /\ UNCHANGED queueVars

\* updateProduct when the store rejects the update statement with `error`
UpdateProduct_WriteFailsWith(h, error) ==
  LET r == reqs[h]
  IN /\ r.pc = "fetched"
     /\ r.method = "PUT"
     /\ reqs' = [reqs EXCEPT ![h] =
                   Served(r, r.currentProduct,
                          ThrownToResponse(error, "product", r.id))]
     /\ UNCHANGED <<products, form, userRole, accepted, hist>>
     /\ UNCHANGED queueVars

UpdateProduct_WriteFails(h) ==
  \E error \in StoreErrors : UpdateProduct_WriteFailsWith(h, error)

\* getProductById
GetProductById(h) ==
  LET r == reqs[h]
      data == products[r.id]
  IN /\ r.pc = "pending"
     /\ r.method = "GET"
     /\ reqs' = [reqs EXCEPT ![h] =
                   Served(r, NoSelected,
                          IF data.exists THEN SuccessResponse(data)
                          ELSE ThrownToResponse(NoRowsError, "product", r.id))]
     /\ UNCHANGED <<products, form, userRole, accepted, hist>>
     /\ UNCHANGED queueVars

\* an existence check followed by a version check like updateProduct's
DeleteProduct_Read_Versioned(h) ==
  LET r == reqs[h]
      cur == products[r.id]
  IN /\ r.pc = "pending"
     /\ r.method = "DELETE"
     /\ reqs' = [reqs EXCEPT ![h] =
                   IF ~cur.exists
                     THEN Served(r, NoSelected,
                                 sendErrorResponse(NOT_FOUND("product", r.id)))
                   ELSE IF cur.version # r.body.version
                     THEN Served(r, NoSelected,
                                 sendErrorResponse(CONFLICT("product", r.id,
                                                            r.body.version,
                                                            cur.version)))
                   ELSE [r EXCEPT !.pc = "fetched"]]
     /\ UNCHANGED <<products, form, userRole, accepted, hist>>
     /\ UNCHANGED queueVars

\* deleteProduct up to the second await: the existence check
DeleteProduct_Read(h) ==
  LET r == reqs[h]
  IN /\ r.pc = "pending"
     /\ r.method = "DELETE"
     /\ reqs' = [reqs EXCEPT ![h] =
                   IF products[r.id].exists
                     THEN [r EXCEPT !.pc = "fetched"]
                     ELSE Served(r, NoSelected,
                                 sendErrorResponse(NOT_FOUND("product", r.id)))]
     /\ UNCHANGED <<products, form, userRole, accepted, hist>>
     /\ UNCHANGED queueVars

\* deleteProduct from the delete statement to the response
DeleteProduct_Write(h) ==
  LET r == reqs[h]
  IN /\ r.pc = "fetched"
     /\ r.method = "DELETE"
     /\ products' = [products EXCEPT ![r.id] = NoRow]
     /\ reqs' = [reqs EXCEPT ![h] = Served(r, NoSelected, SuccessResponse(NoRow))]
     /\ UNCHANGED <<form, userRole, accepted, hist>>
     /\ UNCHANGED queueVars

\* createProduct: the `Basic validation` test on the destructured body
MissingRequired(body) == body.name = NoName \/ body.unit_price = Undefined

\* res.status(201).json({ success: true, data })
CreatedResponse(data) == Response(201, "", "", NoName, 0, 0, data)

\* the ids of the sequence not handed out yet
FreeSerialIds == { i \in SerialIds : ~products[i].exists }

\* createProduct: validation, insert, response; a thrown validation error
\* is an Error, which the catch clause hands to mapSupabaseError
CreateProduct(h) ==
  LET r == reqs[h]
      thrown == VALIDATION_ERROR("Missing required fields")
  IN /\ r.pc = "pending"
     /\ r.method = "POST"
     /\ IF MissingRequired(r.body)
          THEN /\ reqs' = [reqs EXCEPT ![h] =
                             Served(r, NoSelected,
                                    sendErrorResponse(
                                      mapSupabaseError(thrown, "product", "unknown")))]
               /\ UNCHANGED products
          ELSE \/ \E i \in FreeSerialIds :
                    LET data == Row(r.body.name, r.body.unit_price, 1)
                    IN /\ products' = [products EXCEPT ![i] = data]
                       /\ reqs' = [reqs EXCEPT ![h] =
                                     Served(r, NoSelected, CreatedResponse(data))]
               \/ \E error \in StoreErrors :
                    /\ reqs' = [reqs EXCEPT ![h] =
                                  Served(r, NoSelected,
                                         ThrownToResponse(error, "product", "unknown"))]
                    /\ UNCHANGED products
     /\ UNCHANGED <<form, userRole, accepted, hist>>
     /\ UNCHANGED queueVars

\* ------------------------------------------------------------------------
\* API clients other than the form (another browser, a script)
\* ------------------------------------------------------------------------

\* client h sends PUT /api/products/:id
ClientPut(h, role, id, body) ==
  /\ reqs[h].pc = "idle"
  /\ reqs' = [reqs EXCEPT ![h] = Request("PUT", role, id, body)]
  /\ UNCHANGED <<products, form, userRole, accepted, hist>>
  /\ UNCHANGED queueVars

\* client h sends GET /api/products/:id
ClientGet(h, role, id) ==
  /\ reqs[h].pc = "idle"
  /\ reqs' = [reqs EXCEPT ![h] = Request("GET", role, id, NoBody)]
  /\ UNCHANGED <<products, form, userRole, accepted, hist>>
  /\ UNCHANGED queueVars

\* client h sends DELETE /api/products/:id (the route admits owners only)
ClientDelete(h, id) ==
  /\ reqs[h].pc = "idle"
  /\ reqs' = [reqs EXCEPT ![h] = Request("DELETE", "owner", id, NoBody)]
  /\ UNCHANGED <<products, form, userRole, accepted, hist>>
  /\ UNCHANGED queueVars

\* client h sends POST /api/products (the route admits owners only)
ClientPost(h, body) ==
  /\ reqs[h].pc = "idle"
  /\ reqs' = [reqs EXCEPT ![h] = Request("POST", "owner", "", body)]
  /\ UNCHANGED <<products, form, userRole, accepted, hist>>
  /\ UNCHANGED queueVars

\* client h has its response
ClientDone(h) ==
  /\ reqs[h].pc = "done"
  /\ reqs' = [reqs EXCEPT ![h] = IdleReq]
  /\ UNCHANGED <<products, form, userRole, accepted, hist>>
  /\ UNCHANGED queueVars

\* ------------------------------------------------------------------------
\* ProductForm
\* ------------------------------------------------------------------------

\* the page opens the edit modal on a listed product; the mount effect
\* copies the product into the fields
OpenForm ==
  /\ form.pc = "closed"
  /\ products[FormId].exists
  /\ form' = [ClosedForm EXCEPT !.pc = "editing",
                                !.product = Product(FormId, products[FormId]),
                                !.name = products[FormId].name,
                                !.unitPrice = products[FormId].unit_price,
                                !.version = products[FormId].version]
  /\ UNCHANGED <<products, reqs, userRole, accepted, hist>>
  /\ UNCHANGED queueVars

\* the page closes the edit modal, unmounting the form
CloseForm ==
  /\ form.pc = "editing"
  /\ form' = ClosedForm
  /\ hist' = NoHist
  /\ UNCHANGED <<products, reqs, userRole, accepted>>
  /\ UNCHANGED queueVars

\* onChange of the name input
SetName(n) ==
  /\ form.pc = "editing"
  /\ ~form.showConflictModal
  /\ form.name # n
  /\ form' = [form EXCEPT !.name = n]
  /\ UNCHANGED <<products, reqs, userRole, accepted, hist>>
  /\ UNCHANGED queueVars

\* onChange of the unit price input
SetUnitPrice(p) ==
  /\ form.pc = "editing"
  /\ ~form.showConflictModal
  /\ form.unitPrice # p
  /\ form' = [form EXCEPT !.unitPrice = p]
  /\ UNCHANGED <<products, reqs, userRole, accepted, hist>>
  /\ UNCHANGED queueVars

\* handleSubmit up to the fetch inside submitProduct
HandleSubmit ==
  /\ form.pc = "editing"
  /\ ~form.showConflictModal
  /\ reqs["form"].pc = "idle"
  /\ form' = [form EXCEPT !.pc = "submit", !.error = "",
                           !.productData = Body(form.name, form.unitPrice, form.version)]
  /\ reqs' = [reqs EXCEPT !["form"] =
                Request("PUT", userRole, form.product.id,
                        Body(form.name, form.unitPrice, form.version))]
  /\ UNCHANGED <<products, userRole, accepted, hist>>
  /\ UNCHANGED queueVars

\* submitProduct after the fetch, and what its caller does with the result
\* (caller is handleSubmit when pc = "submit", handleConflictResolution when
\* pc = "resolve")
SubmitProduct_Response ==
  LET res == reqs["form"].res
      productData == form.productData
      result == SubmitResult(res)
  IN /\ form.pc \in {"submit", "resolve"}
     /\ reqs["form"].pc = "done"
     /\ reqs' = [reqs EXCEPT !["form"] = IdleReq]
     /\ form' =
          IF result \in {"permissionError", "conflict"}
            THEN [WithConflict(form, res, productData) EXCEPT
                    !.pc = "editing", !.productData = NoBody]
          ELSE IF result = "throw"
            THEN [form EXCEPT !.pc = "editing", !.error = res.message,
                              !.productData = NoBody]
          ELSE ClosedForm
     /\ hist' =
          IF result \in {"permissionError", "conflict"}
            THEN [NoHist EXCEPT !.conflictRow = reqs["form"].currentProduct]
          ELSE IF result = "throw" THEN [hist EXCEPT !.afterRemote = FALSE,
                                                     !.remoteRow = NoRow]
          ELSE NoHist
     /\ UNCHANGED <<products, userRole, accepted>>
     /\ UNCHANGED queueVars

\* onClose of the resolution modal
ModalClose ==
  /\ form.pc = "editing"
  /\ form.showConflictModal
  /\ form' = ClearedConflict(form)
  /\ hist' = NoHist
  /\ UNCHANGED <<products, reqs, userRole, accepted>>
  /\ UNCHANGED queueVars

\* handleConflictResolution for a resolution that resubmits, up to the fetch
HandleConflictResolution_Put(resolution, mergedData) ==
  /\ form.pc = "editing"
  /\ form.showConflictModal
  /\ form.conflictData # NullDetails /\ form.clientData # NoBody
  /\ reqs["form"].pc = "idle"
  /\ resolution \in Offered(form)
  /\ form.isPermissionError \/ resolution # "accept-remote"
  /\ form' = [form EXCEPT !.pc = "resolve", !.error = "",
                           !.productData = ResolutionData(form, resolution, mergedData)]
  /\ reqs' = [reqs EXCEPT !["form"] =
                Request("PUT", userRole, form.product.id,
                        ResolutionData(form, resolution, mergedData))]
  /\ hist' = [hist EXCEPT !.resolution = resolution,
                          !.viaPermission = form.isPermissionError]
  /\ UNCHANGED <<products, userRole, accepted>>
  /\ UNCHANGED queueVars

\* handleConflictResolution('accept-remote') on a version conflict, up to
\* the fetch of the current record
HandleConflictResolution_Fetch ==
  /\ form.pc = "editing"
  /\ form.showConflictModal
  /\ form.conflictData # NullDetails /\ form.clientData # NoBody
  /\ reqs["form"].pc = "idle"
  /\ ~form.isPermissionError
  /\ form' = [form EXCEPT !.pc = "remote", !.error = ""]
  /\ reqs' = [reqs EXCEPT !["form"] = AcceptRemoteRequest(form, userRole)]
  /\ hist' = [hist EXCEPT !.resolution = "accept-remote", !.viaPermission = FALSE]
  /\ UNCHANGED <<products, userRole, accepted>>
  /\ UNCHANGED queueVars

\* handleConflictResolution('accept-remote') after the fetch
AcceptRemote_Response ==
  LET res == reqs["form"].res
      ok == res.status >= 200 /\ res.status <= 299
      currentProduct == res.data
      adopted == IF ok THEN Adopt(form, currentProduct) ELSE form
  IN /\ form.pc = "remote"
     /\ reqs["form"].pc = "done"
     /\ reqs' = [reqs EXCEPT !["form"] = IdleReq]
     /\ form' = [ClearedConflict(adopted) EXCEPT !.pc = "editing"]
     /\ hist' = [NoHist EXCEPT !.remoteRow = IF ok THEN currentProduct ELSE NoRow,
                               !.afterRemote = ok]
     /\ UNCHANGED <<products, userRole, accepted>>
     /\ UNCHANGED queueVars

\* a second owner saves an edit of the listed record, submitting the version
\* the list shows
SecondOwnerPut(n, p) ==
  /\ products[FormId].exists
  /\ ClientPut("other", "owner", FormId, Body(n, p, products[FormId].version))

\* the backend serving whatever requests are pending
Backend ==
  \/ \E h \in Handlers : UpdateProduct_Read(h)
  \/ \E h \in Handlers : UpdateProduct_Write(h)
  \/ \E h \in Handlers : UpdateProduct_WriteFails(h)
  \/ \E h \in Handlers : GetProductById(h)
  \/ \E h \in Handlers : DeleteProduct_Read(h)
  \/ \E h \in Handlers : DeleteProduct_Write(h)

\* Two API clients with arbitrary requests against the backend
Next ==
  \/ Backend
  \/ \E h \in Clients, role \in Roles, id \in ProductIds,
        n \in Names \cup {NoName}, p \in Prices \cup {Undefined}, v \in 1..MaxVersion :
       ClientPut(h, role, id, Body(n, p, v))
  \/ \E h \in Clients, role \in Roles, id \in ProductIds : ClientGet(h, role, id)
  \/ \E h \in Clients, id \in ProductIds : ClientDelete(h, id)
  \/ \E h \in Clients : ClientDone(h)

Spec == Init /\ [][Next]_vars

\* The form of one signed-in user, and a second owner who edits the record
\* he has just loaded
InitForm ==
  /\ products = InitialProducts
  /\ reqs = [h \in Handlers |-> IdleReq]
  /\ form = ClosedForm
  /\ userRole \in Roles
  /\ accepted = [i \in AllIds |-> {}]
  /\ hist = NoHist
  /\ QueueInit

NextForm ==
  \/ Backend
  \/ \E n \in Names, p \in Prices : SecondOwnerPut(n, p)
  \/ ClientDelete("other", FormId)
  \/ ClientDone("other")
  \/ OpenForm
  \/ CloseForm
  \/ \E n \in Names : SetName(n)
  \/ \E p \in Prices : SetUnitPrice(p)
  \/ HandleSubmit
  \/ SubmitProduct_Response
  \/ ModalClose
  \/ \E resolution \in {"keep-mine", "accept-remote", "merge-manual"},
        n \in Names, p \in Prices :
       HandleConflictResolution_Put(resolution, [name |-> n, unit_price |-> p])
  \/ HandleConflictResolution_Fetch
  \/ AcceptRemote_Response

SpecForm == InitForm /\ [][NextForm]_vars

\* Two API clients creating and reading records
NextCreate ==
  \/ \E h \in Clients : CreateProduct(h)
  \/ \E h \in Clients : GetProductById(h)
  \/ \E h \in Clients, n \in Names \cup {NoName}, p \in Prices \cup {Undefined} :
       ClientPost(h, Body(n, p, 0))
  \/ \E h \in Clients, role \in Roles, id \in AllIds : ClientGet(h, role, id)
  \/ \E h \in Clients : ClientDone(h)

SpecCreate == Init /\ [][NextCreate]_vars

\* ------------------------------------------------------------------------
\* Offline edit queue: processQueue, syncItem and their triggers
\* ------------------------------------------------------------------------

\* processQueue with its re-entry test removed
MayStart_Always(busy) == TRUE

\* processQueue: `if (isProcessing) return`
MayStart(busy) == ~busy

\* the invocation slot a new call of processQueue runs in
FreePass == CHOOSE p \in PassIds :
              /\ passes[p].pc = "idle"
              /\ \A q \in PassIds : q < p => passes[q].pc # "idle"

\* the loop without its `continue` on synced items
NextItem_All(q, from) == IF from <= Len(q) THEN from ELSE 0

\* for (const item of inMemoryQueue) { if (item.status === 'synced') continue
\* the first item at position `from` or later that is not synced; 0 if none
NextItem(q, from) ==
  LET todo == { k \in from..Len(q) : q[k].status # "synced" }
  IN IF todo = {} THEN 0 ELSE CHOOSE k \in todo : \A j \in todo : k <= j

\* getQueue().length as OfflineControls shows it
QueueLength(q) == Len(q)

\* a delivered entry taken out of the queue
MarkSynced_Removes(q, k) == SubSeq(q, 1, k - 1) \o SubSeq(q, k + 1, Len(q))

\* syncItem on a 2xx answer: updateItem(item.id, { status: 'synced' })
MarkSynced(q, k) == [q EXCEPT ![k].status = "synced"]

\* the failure mark leaving the attempts count as it was
MarkError_KeepsAttempts(q, k, itemAttempts, message) ==
  [q EXCEPT ![k].status = "error", ![k].lastError = message]

\* syncItem's catch: updateItem(item.id, { status: 'error', attempts, lastError })
MarkError(q, k, itemAttempts, message) ==
  [q EXCEPT ![k].status = "error", ![k].attempts = itemAttempts + 1,
            ![k].lastError = message]

\* a fetch that carries the record's present version instead of the body's
Delivery_Refreshed(item) ==
  Request(item.method, userRole, FormId,
          IF item.method = "PUT"
            THEN [item.body EXCEPT !.version = products[FormId].version]
            ELSE item.body)

\* the fetch of syncItem
Delivery(item) == Request(item.method, userRole, FormId, item.body)

\* the loop without its `if (isSimulatedOffline()) break`
RunLoop_IgnoresOffline(p, q, from) ==
  LET k == NextItem(q, from)
  IN IF k = 0
       THEN /\ inMemoryQueue' = q
            /\ passes' = [passes EXCEPT ![p] = IdlePass]
            /\ isProcessing' = FALSE
            /\ reqs' = [reqs EXCEPT !["queue"] = IdleReq]
       ELSE /\ inMemoryQueue' = [q EXCEPT ![k].status = "syncing"]
            /\ passes' = [passes EXCEPT ![p] =
                            [pc |-> "fetch", item |-> k,
                             attempts |-> q[k].attempts, delay |-> 0]]
            /\ isProcessing' = TRUE
            /\ reqs' = [reqs EXCEPT !["queue"] = Delivery(q[k])]

\* the loop of processQueue run by invocation p over queue q from position
\* `from` up to its next await: it ends the pass (no item left, or offline),
\* or marks the next item syncing and issues its delivery
RunLoop(p, q, from) ==
  LET k == NextItem(q, from)
  IN IF k = 0 \/ offline
       THEN /\ inMemoryQueue' = q
            /\ passes' = [passes EXCEPT ![p] = IdlePass]
            /\ isProcessing' = FALSE
            /\ reqs' = [reqs EXCEPT !["queue"] = IdleReq]
       ELSE /\ inMemoryQueue' = [q EXCEPT ![k].status = "syncing"]
            /\ passes' = [passes EXCEPT ![p] =
                            [pc |-> "fetch", item |-> k,
                             attempts |-> q[k].attempts, delay |-> 0]]
            /\ isProcessing' = TRUE
            /\ reqs' = [reqs EXCEPT !["queue"] = Delivery(q[k])]

\* enqueueEdit(edit): push, persist, processQueue()
EnqueueEdit(edit) ==
  LET q == Append(inMemoryQueue, QueuedEdit(edit.method, edit.body))
  IN /\ Len(inMemoryQueue) < MaxQueue
     /\ products[FormId].exists \/ inMemoryQueue # << >>
     /\ IF MayStart(isProcessing) /\ \E p \in PassIds : passes[p].pc = "idle"
          THEN reqs["queue"].pc = "idle" /\ RunLoop(FreePass, q, 1)
          ELSE /\ inMemoryQueue' = q
               /\ UNCHANGED <<isProcessing, passes, reqs>>
     /\ UNCHANGED <<products, form, userRole, accepted, hist, offline, queueLen>>

\* the interval starting passes only while offline
Tick_WhileOffline ==
  /\ ~isProcessing /\ offline
  /\ MayStart(isProcessing) /\ \E p \in PassIds : passes[p].pc = "idle"
  /\ reqs["queue"].pc = "idle"
  /\ RunLoop(FreePass, inMemoryQueue, 1)
  /\ UNCHANGED <<products, form, userRole, accepted, hist, offline, queueLen>>

\* the 2 s interval: if (!isProcessing && !isSimulatedOffline()) processQueue()
Tick ==
  /\ ~isProcessing /\ ~offline
  /\ MayStart(isProcessing) /\ \E p \in PassIds : passes[p].pc = "idle"
  /\ reqs["queue"].pc = "idle"
  /\ RunLoop(FreePass, inMemoryQueue, 1)
  /\ UNCHANGED <<products, form, userRole, accepted, hist, offline, queueLen>>

\* the "Sync Now" button: processQueue()
TrySync ==
  /\ MayStart(isProcessing) /\ \E p \in PassIds : passes[p].pc = "idle"
  /\ reqs["queue"].pc = "idle"
  /\ RunLoop(FreePass, inMemoryQueue, 1)
  /\ UNCHANGED <<products, form, userRole, accepted, hist, offline, queueLen>>

\* syncItem from the answer of its fetch on, and the loop up to the next await
SyncItem_Response(p) ==
  LET res == reqs["queue"].res
      ok == res.status >= 200 /\ res.status <= 299
      k == passes[p].item
      attempts == passes[p].attempts + 1
  IN /\ passes[p].pc = "fetch"
     /\ reqs["queue"].pc = "done"
     /\ IF ok
          THEN RunLoop(p, MarkSynced(inMemoryQueue, k), k + 1)
          ELSE /\ attempts <= MaxAttempts
               /\ inMemoryQueue' = MarkError(inMemoryQueue, k, passes[p].attempts,
                                              res.message)
               /\ passes' = [passes EXCEPT ![p].pc = "sleep",
                                           ![p].delay = backoffDelay(attempts)]
               /\ reqs' = [reqs EXCEPT !["queue"] = IdleReq]
               /\ UNCHANGED isProcessing
     /\ UNCHANGED <<products, form, userRole, accepted, hist, offline, queueLen>>

\* syncItem when its fetch rejects (the request does not reach the server)
SyncItem_NetworkError(p) ==
  LET k == passes[p].item
      attempts == passes[p].attempts + 1
  IN /\ passes[p].pc = "fetch"
     /\ reqs["queue"].pc = "pending"
     /\ attempts <= MaxAttempts
     /\ inMemoryQueue' = MarkError(inMemoryQueue, k, passes[p].attempts,
                                    "Failed to fetch")
     /\ passes' = [passes EXCEPT ![p].pc = "sleep",
                                 ![p].delay = backoffDelay(attempts)]
     /\ reqs' = [reqs EXCEPT !["queue"] = IdleReq]
     /\ UNCHANGED <<products, form, userRole, accepted, hist, isProcessing,
                    offline, queueLen>>

\* the pass ending after a failed delivery
SyncItem_Slept_EndsPass(p) ==
  /\ passes[p].pc = "sleep"
  /\ reqs["queue"].pc = "idle"
  /\ passes' = [passes EXCEPT ![p] = IdlePass]
  /\ isProcessing' = FALSE
  /\ UNCHANGED <<products, reqs, form, userRole, accepted, hist, inMemoryQueue,
                 offline, queueLen>>

\* the sleep of syncItem is over; the loop goes on to the next item
SyncItem_Slept(p) ==
  /\ passes[p].pc = "sleep"
  /\ reqs["queue"].pc = "idle"
  /\ RunLoop(p, inMemoryQueue, passes[p].item + 1)
  /\ UNCHANGED <<products, form, userRole, accepted, hist, offline, queueLen>>

\* the "Simulate 10s Offline" button: setSimulatedOffline(10)
TriggerOffline ==
  /\ ~offline
  /\ offline' = TRUE
  /\ UNCHANGED <<products, reqs, form, userRole, accepted, hist,
                 inMemoryQueue, isProcessing, passes, queueLen>>

\* the simulated offline period runs out
OfflineExpires ==
  /\ offline
  /\ offline' = FALSE
  /\ UNCHANGED <<products, reqs, form, userRole, accepted, hist,
                 inMemoryQueue, isProcessing, passes, queueLen>>

\* the 500 ms interval of OfflineControls
OfflineControls_Poll ==
  /\ queueLen' = QueueLength(inMemoryQueue)
  /\ UNCHANGED <<products, reqs, form, userRole, accepted, hist,
                 inMemoryQueue, isProcessing, passes, offline>>

\* the backend serving the deliveries of the queue
QueueBackend ==
  \/ UpdateProduct_Read("queue")
  \/ UpdateProduct_Write("queue")
  \/ DeleteProduct_Read("queue")
  \/ DeleteProduct_Write("queue")

\* the table after another user's update of the listed record, which the
\* client still holds at version 1
UpdatedSince ==
  [InitialProducts EXCEPT
     ![FormId] = ApplyUpdate(@, UpdateData("owner", Body(NoName, 15, 1), @))]

\* The offline queue of one signed-in owner
InitQueue ==
  /\ products \in {InitialProducts, UpdatedSince}
  /\ reqs = [h \in Handlers |-> IdleReq]
  /\ form = ClosedForm
  /\ userRole = "owner"
  /\ accepted = [i \in AllIds |-> {}]
  /\ hist = NoHist
  /\ QueueInit

NextQueue ==
  \/ QueueBackend
  \/ \E edit \in QueuedEdits : EnqueueEdit(edit)
  \/ Tick
  \/ TrySync
  \/ \E p \in PassIds : SyncItem_Response(p)
  \/ \E p \in PassIds : SyncItem_NetworkError(p)
  \/ \E p \in PassIds : SyncItem_Slept(p)
  \/ TriggerOffline
  \/ OfflineExpires
  \/ OfflineControls_Poll

SpecQueue == InitQueue /\ [][NextQueue]_vars

\* the queue without the controls' display
NextQueueLive ==
  \/ QueueBackend
  \/ \E edit \in QueuedEdits : EnqueueEdit(edit)
  \/ Tick
  \/ TrySync
  \/ \E p \in PassIds : SyncItem_Response(p)
  \/ \E p \in PassIds : SyncItem_NetworkError(p)
  \/ \E p \in PassIds : SyncItem_Slept(p)
  \/ TriggerOffline
  \/ OfflineExpires

\* the timer fires, the server answers and the answers arrive; the user's
\* clicks and network failures are not forced
QueueFairness ==
  /\ WF_vars(Tick)
  /\ WF_vars(QueueBackend)
  /\ \A p \in PassIds : WF_vars(SyncItem_Response(p))
  /\ \A p \in PassIds : WF_vars(SyncItem_Slept(p))

SpecQueueLive == InitQueue /\ [][NextQueueLive]_vars /\ QueueFairness

\* the same timers, with a server that may leave a fetch unanswered:
\* syncItem's `await fetch(...)` has no timeout and no abort signal
QueueFairnessUnanswered ==
  /\ WF_vars(Tick)
  /\ \A p \in PassIds : WF_vars(SyncItem_Response(p))
  /\ \A p \in PassIds : WF_vars(SyncItem_Slept(p))

SpecQueueUnanswered ==
  InitQueue /\ [][NextQueueLive]_vars /\ QueueFairnessUnanswered

\* ------------------------------------------------------------------------
\* Properties of the update handler (checked under Spec)
\* ------------------------------------------------------------------------

\* this step is handler h running the checks of a PUT after its read
ReadStep(h) ==
  /\ reqs[h].pc = "pending"
  /\ reqs[h].method = "PUT"
  /\ reqs'[h].pc # "pending"

\* this step is handler h answering 200 to a PUT whose row the update
\* statement has matched
AcceptStep(h) ==
  /\ reqs[h].pc = "fetched"
  /\ reqs[h].method = "PUT"
  /\ reqs'[h].pc = "done"
  /\ reqs'[h].res.status = 200
  /\ products[reqs[h].id].exists

\* C1: of the update requests on a record that submit the same version, at
\* most one is accepted - no update is accepted with a version that an
\* earlier accepted update of that record had submitted.
C1_AtMostOneAcceptedPerVersion ==
  [][\A h \in Handlers :
       AcceptStep(h) => reqs[h].body.version \notin accepted[reqs[h].id]]_vars

\* C2: every accepted write moves the stored version from the value it had
\* immediately before the write to exactly that value plus one.
C2_AcceptedWriteIncrementsVersion ==
  [][\A h \in Handlers :
       AcceptStep(h) =>
         products'[reqs[h].id].version = products[reqs[h].id].version + 1]_vars

\* C3: the outcome of an update request is decided in the order NOT_FOUND
\* (row absent), PERMISSION_EDIT_PRICE (staff submits a different
\* unit_price), CONFLICT (submitted version differs), and only then is the
\* update statement run; when the store executes it the answer is 200 and
\* the row carries the submitted version plus one.
C3_Precedence ==
  [][\A h \in Handlers :
       LET r == reqs[h]
           row == products[r.id]
           res == reqs'[h].res
       IN /\ ReadStep(h) =>
               IF ~row.exists
                 THEN reqs'[h].pc = "done" /\ res.status = 404 /\ res.code = "NOT_FOUND"
               ELSE IF r.role = "staff" /\ r.body.unit_price # Undefined
                       /\ r.body.unit_price # row.unit_price
                 THEN /\ reqs'[h].pc = "done"
                      /\ res.status = 403 /\ res.code = "PERMISSION_EDIT_PRICE"
               ELSE IF r.body.version # row.version
                 THEN reqs'[h].pc = "done" /\ res.status = 409 /\ res.code = "CONFLICT"
               ELSE reqs'[h].pc = "fetched" /\ products' = products
          /\ AcceptStep(h) =>
               /\ products'[r.id].version = r.body.version + 1
               /\ res.data = products'[r.id]]_vars

\* a staff request with a changed price and a stale version was answered
\* PERMISSION_EDIT_PRICE
C3_Witness ==
  \E h \in Handlers :
    /\ reqs[h].pc = "done" /\ reqs[h].method = "PUT" /\ reqs[h].role = "staff"
    /\ reqs[h].res.code = "PERMISSION_EDIT_PRICE"
    /\ reqs[h].currentProduct.exists
    /\ reqs[h].body.version # reqs[h].currentProduct.version

\* C4: a request that finds the row, passes the write guard and submits a
\* version other than the stored one is answered 409 CONFLICT with
\* expected_version = submitted and actual_version = stored version, and
\* the stored row is left as it was.
C4_ConflictOutcome ==
  [][\A h \in Handlers :
       LET r == reqs[h]
           row == products[r.id]
           res == reqs'[h].res
       IN (/\ ReadStep(h)
           /\ row.exists
           /\ ~(r.role = "staff" /\ r.body.unit_price # Undefined
                /\ r.body.unit_price # row.unit_price)
           /\ r.body.version # row.version)
          => /\ reqs'[h].pc = "done"
             /\ res.status = 409 /\ res.code = "CONFLICT"
             /\ res.expected_version = r.body.version
             /\ res.actual_version = row.version
             /\ products' = products]_vars

\* a CONFLICT answer whose two versions differ
C4_Witness ==
  \E h \in Handlers :
    /\ reqs[h].pc = "done" /\ reqs[h].res.status = 409
    /\ reqs[h].res.code = "CONFLICT"
    /\ reqs[h].res.expected_version = reqs[h].body.version
    /\ reqs[h].res.actual_version = products[reqs[h].id].version
    /\ reqs[h].res.expected_version > reqs[h].res.actual_version

\* C5: a staff request whose submitted unit_price differs from the stored
\* one is answered 403 PERMISSION_EDIT_PRICE naming the field unit_price,
\* whatever its version and other fields, and the stored row is left as it
\* was.
C5_PermissionOutcome ==
  [][\A h \in Handlers :
       LET r == reqs[h]
           row == products[r.id]
           res == reqs'[h].res
       IN (/\ ReadStep(h)
           /\ row.exists
           /\ r.role = "staff"
           /\ r.body.unit_price # Undefined
           /\ r.body.unit_price # row.unit_price)
          => /\ reqs'[h].pc = "done"
             /\ res.status = 403 /\ res.code = "PERMISSION_EDIT_PRICE"
             /\ res.field = "unit_price"
             /\ products' = products]_vars

\* a staff request carrying the current version was answered
\* PERMISSION_EDIT_PRICE, the stored price being the lower one
C5_Witness ==
  \E h \in Handlers :
    /\ reqs[h].pc = "done" /\ reqs[h].role = "staff"
    /\ reqs[h].res.status = 403 /\ reqs[h].res.field = "unit_price"
    /\ reqs[h].body.version = reqs[h].currentProduct.version
    /\ reqs[h].currentProduct.unit_price = 15
    /\ products[reqs[h].id] # Row("X", 10, 1)

\* C6: the stored unit_price of a record changes only in the accepted write
\* of an owner's request, and an accepted staff request writes the name it
\* submitted.
C6_OnlyOwnerChangesPrice ==
  [][\A id \in ProductIds :
       /\ (/\ products[id].exists /\ products'[id].exists
           /\ products'[id].unit_price # products[id].unit_price)
          => \E h \in Handlers :
               AcceptStep(h) /\ reqs[h].id = id /\ reqs[h].role = "owner"
       /\ \A h \in Handlers :
            (AcceptStep(h) /\ reqs[h].id = id /\ reqs[h].role = "staff"
             /\ reqs[h].body.name # NoName)
            => products'[id].name = reqs[h].body.name]_vars

\* ------------------------------------------------------------------------
\* Properties of the resolution flow (checked under SpecForm)
\* ------------------------------------------------------------------------

\* this step is the backend running the checks of the form's PUT
FormReadStep ==
  /\ reqs["form"].pc = "pending"
  /\ reqs["form"].method = "PUT"
  /\ reqs'["form"].pc # "pending"

\* this step is the continuation of accept-remote after its fetch
AcceptRemoteCompletes == form.pc = "remote" /\ form'.pc # "remote"

\* C7: the write resubmitted by keep-mine or merge-manual on a CONFLICT
\* carries version = actual_version and, the record still being at
\* actual_version (and the merged price not tripping the write guard), it
\* passes the checks of the update handler.
C7_ResubmitAccepted ==
  [][(/\ FormReadStep
      /\ form.pc = "resolve"
      /\ ~hist.viaPermission
      /\ hist.resolution \in {"keep-mine", "merge-manual"}
      /\ products[FormId].exists
      /\ products[FormId].version = form.conflictData.actual_version
      /\ ~PriceGuardTrips(userRole, reqs["form"].body, products[FormId]))
     => /\ reqs["form"].body.version = form.conflictData.actual_version
        /\ reqs'["form"].pc = "fetched"]_vars

\* C8: accept-remote on a version conflict issues one GET and nothing else:
\* the request it leaves pending is a GET, serving it leaves the products
\* table as it was, and its continuation issues no request.
C8_AcceptRemoteIssuesNoWrite ==
  [][/\ (form.pc # "remote" /\ form'.pc = "remote")
          => /\ reqs'["form"].pc = "pending"
             /\ reqs'["form"].method = "GET"
             /\ products' = products
     /\ (form.pc = "remote" /\ reqs'["form"] # reqs["form"])
          => products' = products
     /\ AcceptRemoteCompletes
          => reqs'["form"] = IdleReq /\ products' = products]_vars

\* the GET of an accept-remote has been served with the record
C8_Witness ==
  /\ form.pc = "remote"
  /\ reqs["form"].pc = "done" /\ reqs["form"].method = "GET"
  /\ reqs["form"].res.status = 200
  /\ reqs["form"].res.data = products[FormId]

\* the fields of the form as a payload
Baseline(f) == Body(f.name, f.unitPrice, f.version)

\* the conflict state of the form is cleared
Cleared(f) ==
  /\ ~f.showConflictModal
  /\ f.conflictData = NullDetails
  /\ f.clientData = NoBody
  /\ ~f.isPermissionError

C10_PermissionResolutionAccepted ==
  [][(/\ FormReadStep
      /\ form.pc = "resolve"
      /\ hist.viaPermission
      /\ hist.resolution = "keep-mine"
      /\ products[FormId].exists
      /\ Selected(products[FormId]) = hist.conflictRow
      /\ form.version = products[FormId].version
      /\ form.product.unit_price = products[FormId].unit_price)
     => reqs'["form"].pc = "fetched"]_vars

\* this step is a resolution of the modal issuing its request
ResolutionIssues ==
  /\ form.pc = "editing"
  /\ form.showConflictModal
  /\ form'.pc \in {"resolve", "remote"}

\* C11: a conflict instance gets one resolution request: keep-mine and
\* merge-manual issue one PUT, accept-remote one GET, and no resolution
\* issues a request for a conflict instance that a resolution has already
\* issued a request for.
C11_OneRequestPerConflict ==
  [][ResolutionIssues =>
       /\ hist.resolution = ""
       /\ reqs["form"].pc = "idle" /\ reqs'["form"].pc = "pending"
       /\ reqs'["form"].method =
            IF hist'.resolution = "accept-remote" /\ ~hist'.viaPermission
              THEN "GET" ELSE "PUT"]_vars

\* this step is the form receiving the answer to a save (handleSubmit)
SaveAnswered ==
  /\ form.pc = "submit"
  /\ reqs["form"].pc = "done"
  /\ form'.pc # "submit"

ActivePasses(ps) == { p \in PassIds : ps[p].pc # "idle" }

\* this step has invocation p issue the delivery of an item
Delivers(p) == passes'[p].pc = "fetch" /\ passes'[p] # passes[p]

\* C13: an entry enters the queue as queued (syncing, when the pass started
\* by its enqueue takes it up in the same run) and its status changes only
\* queued -> syncing, error -> syncing, syncing -> synced, syncing -> error;
\* a synced entry stays as it is and no delivery is issued for it.
C13_StatusTransitions ==
  [][/\ Len(inMemoryQueue') >= Len(inMemoryQueue)
     /\ \A k \in 1..Len(inMemoryQueue') :
          IF k > Len(inMemoryQueue)
            THEN /\ inMemoryQueue'[k].status \in {"queued", "syncing"}
                 /\ inMemoryQueue'[k].attempts = 0
            ELSE LET old == inMemoryQueue[k].status
                     new == inMemoryQueue'[k].status
                 IN /\ old # new =>
                         <<old, new>> \in { <<"queued", "syncing">>, <<"error", "syncing">>,
                                           <<"syncing", "synced">>, <<"syncing", "error">> }
                    /\ old = "synced" => inMemoryQueue'[k] = inMemoryQueue[k]
     /\ \A p \in PassIds :
          (Delivers(p) /\ passes'[p].item <= Len(inMemoryQueue))
            => inMemoryQueue[passes'[p].item].status # "synced"]_vars

\* an entry that failed is being retried while an earlier one is synced
C13_Witness ==
  /\ Len(inMemoryQueue) = 2
  /\ inMemoryQueue[1].status = "synced"
  /\ inMemoryQueue[2].status = "syncing" /\ inMemoryQueue[2].attempts >= 1

\* C14: at most one invocation of processQueue is running at any time, and
\* an enqueue that arrives while one is running starts no second one and
\* issues no delivery.
C14_SinglePass ==
  [][/\ Cardinality(ActivePasses(passes')) <= 1
     /\ (ActivePasses(passes') # {}) = isProcessing'
     /\ (isProcessing /\ Len(inMemoryQueue') > Len(inMemoryQueue))
          => passes' = passes /\ reqs' = reqs]_vars

\* an edit was enqueued while a pass was asleep after a failure
C14_Witness ==
  /\ isProcessing
  /\ \E p \in PassIds :
       /\ passes[p].pc = "sleep"
       /\ passes[p].item < Len(inMemoryQueue)
       /\ inMemoryQueue[Len(inMemoryQueue)].status = "queued"

\* C15: an invocation issues its deliveries in queue order - each delivery
\* is of the first not-synced entry behind the one delivered before (the
\* first of the queue when the pass starts) - and after a failed delivery,
\* the client not being offline, it goes on to the next not-synced entry.
C15_FifoNoHeadOfLineBlocking ==
  [][\A p \in PassIds :
       LET k == passes[p].item
           k2 == passes'[p].item
       IN /\ Delivers(p) =>
               /\ k2 > k
               /\ \A j \in (k + 1)..(k2 - 1) : inMemoryQueue'[j].status = "synced"
          /\ (/\ passes[p].pc = "sleep" /\ passes'[p].pc # "sleep"
              /\ ~offline
              /\ \E j \in (k + 1)..Len(inMemoryQueue) :
                   inMemoryQueue[j].status # "synced")
               => Delivers(p)]_vars

\* the second entry is being delivered in the pass in which the first failed
C15_Witness ==
  /\ Len(inMemoryQueue) >= 2
  /\ inMemoryQueue[1].status = "error"
  /\ \E p \in PassIds : passes[p].pc = "fetch" /\ passes[p].item = 2

\* C16: a delivery answered 2xx marks the entry synced with its attempts
\* unchanged; a delivery that fails (fetch rejected, or any other answer)
\* marks it error, adds exactly 1 to attempts and records the message; the
\* pass survives the failure (it sleeps, still holding the busy flag).
C16_DeliveryOutcome ==
  [][\A p \in PassIds :
       (passes[p].pc = "fetch" /\ passes'[p] # passes[p]) =>
         LET k == passes[p].item
             res == reqs["queue"].res
             answered == reqs["queue"].pc = "done"
         IN IF answered /\ res.status >= 200 /\ res.status <= 299
              THEN /\ inMemoryQueue'[k].status = "synced"
                   /\ inMemoryQueue'[k].attempts = inMemoryQueue[k].attempts
                   /\ inMemoryQueue'[k].lastError = inMemoryQueue[k].lastError
              ELSE /\ inMemoryQueue'[k].status = "error"
                   /\ inMemoryQueue'[k].attempts = inMemoryQueue[k].attempts + 1
                   /\ inMemoryQueue'[k].lastError =
                        IF answered THEN res.message ELSE "Failed to fetch"
                   /\ inMemoryQueue'[k].lastError # ""
                   /\ passes'[p].pc = "sleep" /\ isProcessing']_vars

\* a queued update was answered CONFLICT and is marked error
C16_Witness ==
  \E k \in 1..Len(inMemoryQueue) :
    /\ inMemoryQueue[k].method = "PUT"
    /\ inMemoryQueue[k].status = "error"
    /\ inMemoryQueue[k].attempts = 2
    /\ inMemoryQueue[k].lastError = "Stale update - product has changed"

\* C17: the delay slept after the n-th failure of an entry is
\* min(5000, 750 * 2^(n-1)) ms: 750 for the first, then double the delay of
\* the failure before or the ceiling 5000, never less than that delay and
\* never more than 5000.
C17_BackoffDelay ==
  [][\A p \in PassIds :
       (passes'[p].pc = "sleep" /\ passes[p].pc # "sleep") =>
         LET n == inMemoryQueue'[passes'[p].item].attempts
             delay == passes'[p].delay
             before == Min(5000, 750 * 2^Max(0, n - 2))
         IN /\ n >= 1
            /\ delay = Min(5000, 750 * 2^(n - 1))
            /\ delay <= 5000
            /\ n = 1 => delay = 750
            /\ n > 1 => /\ delay >= before
                        /\ delay = 2 * before \/ delay = 5000]_vars

\* a pass sleeps the ceiling after the fourth failure of an entry
C17_Witness ==
  \E p \in PassIds :
    /\ passes[p].pc = "sleep" /\ passes[p].delay = 5000
    /\ inMemoryQueue[passes[p].item].attempts = 4

\* a delivery cannot be marked failed: the entry is at the attempts bound
AtBound ==
  \E k \in 1..Len(inMemoryQueue) :
    inMemoryQueue[k].status = "syncing" /\ inMemoryQueue[k].attempts = MaxAttempts

\* C18: while the client is offline a queued entry stays queued, and a
\* queued entry of a client that is not offline is eventually attempted
\* (leaves queued) by the timers alone, unless the client goes offline again.
C18_QueuedEventuallyAttempted ==
  /\ [][\A k \in 1..Len(inMemoryQueue) :
          (offline /\ inMemoryQueue[k].status = "queued")
            => inMemoryQueue'[k].status = "queued"]_vars
  /\ \A k \in 1..MaxQueue :
       (/\ k <= Len(inMemoryQueue)
        /\ inMemoryQueue[k].status = "queued"
        /\ ~offline)
       ~> (\/ k > Len(inMemoryQueue)
           \/ inMemoryQueue[k].status # "queued"
           \/ offline
           \/ AtBound)

\* the only entry of the queue was enqueued offline and is still queued, no
\* pass running
C18_Witness ==
  /\ offline /\ ~isProcessing
  /\ Len(inMemoryQueue) = 1
  /\ inMemoryQueue[1].status = "queued"
  /\ inMemoryQueue[1].method = "DELETE"

\* the entries not yet synced
Pending(q) == { k \in 1..Len(q) : q[k].status # "synced" }

\* C19: the count the controls show, whenever it is refreshed, is the
\* number of entries not yet synced: 1 after one edit was enqueued into the
\* empty queue offline, 0 once that entry is synced.
C19_PendingCountShown ==
  [][queueLen' # queueLen =>
       queueLen' = Cardinality(Pending(inMemoryQueue'))]_vars
\* ------------------------------------------------------------------------
\* Properties of the create handler (checked under SpecCreate)
\* ------------------------------------------------------------------------

\* C20: a create request that omits a required field is answered 400 with
\* code VALIDATION_ERROR, and no row is inserted.
C20_MissingFieldRejected ==
  [][\A h \in Clients :
       (/\ reqs[h].pc = "pending" /\ reqs[h].method = "POST"
        /\ MissingRequired(reqs[h].body)
        /\ reqs'[h].pc = "done")
       => /\ reqs'[h].res.status = 400
          /\ reqs'[h].res.code = "VALIDATION_ERROR"
          /\ products' = products]_vars

\* ------------------------------------------------------------------------
\* Properties of a failing update statement (checked under Spec)
\* ------------------------------------------------------------------------

\* C21: an update that has passed the existence, price and version checks
\* and whose update statement fails because the row was changed by another
\* transaction is answered with status 409.
C21_RowChangedAnswered409 ==
  [][\A h \in Clients :
       UpdateProduct_WriteFailsWith(h, RowChanged)
       => reqs'[h].res.status = 409]_vars

\* the store errors mapSupabaseError has no case for
Unmapped ==
  { e \in StoreErrors : e.code \notin {"PGRST116", "23505", "23503", "23502"} }

\* C25: a store error of none of the mapped kinds is answered with status
\* 500 and a message that carries none of the store's diagnostic text.
C25_UnexpectedFailureOpaque ==
  [][\A h \in Clients : \A e \in Unmapped :
       UpdateProduct_WriteFailsWith(h, e)
       => /\ reqs'[h].res.status = 500
          /\ reqs'[h].res.message # e.message]_vars

\* ------------------------------------------------------------------------
\* Frame properties of the offline queue (checked under SpecQueue)
\* ------------------------------------------------------------------------

\* entry k is the one an invocation of processQueue is delivering
InFlight(ps, k) == \E p \in PassIds : ps[p].pc = "fetch" /\ ps[p].item = k

\* C22: while the client is offline no step issues a delivery, and every
\* entry that is not being delivered keeps its status, attempts, lastError
\* and position; a pass that reaches its loop test offline ends there.
C22_OfflinePassFrame ==
  [][offline =>
       /\ \A p \in PassIds : ~Delivers(p)
       /\ \A k \in 1..Len(inMemoryQueue) :
            ~InFlight(passes, k) => inMemoryQueue'[k] = inMemoryQueue[k]
       /\ \A p \in PassIds :
            (passes[p].pc = "sleep" /\ passes'[p] # passes[p])
              => passes'[p] = IdlePass /\ ~isProcessing']_vars

\* offline, the passes started so far have ended; the failed first entry
\* and the second, never attempted, are left as they were
C22_Witness ==
  /\ offline /\ ~isProcessing
  /\ Len(inMemoryQueue) = 2
  /\ inMemoryQueue[1].status = "error"
  /\ inMemoryQueue[2].status = "queued"
  /\ inMemoryQueue[2].attempts = 0

\* entry k of queue q2 is entry k of q, or that entry taken up (marked
\* syncing) by the pass that this step started
KeptOrTakenUp(q, q2, k) ==
  \/ q2[k] = q[k]
  \/ /\ q2[k] = [q[k] EXCEPT !.status = "syncing"]
     /\ ~isProcessing /\ InFlight(passes', k)

\* C23: a step that enqueues adds exactly one entry, at the tail, queued
\* with attempts 0 and no error; the entries already there keep their
\* content and order; a pass is triggered - it returns at once when one is
\* running, ends at once offline, and otherwise takes up the first entry not
\* synced - and the step ends with that delivery still unanswered.
C23_EnqueueFrame ==
  [][Len(inMemoryQueue') # Len(inMemoryQueue) =>
       LET n == Len(inMemoryQueue)
           new == inMemoryQueue'[n + 1]
       IN /\ Len(inMemoryQueue') = n + 1
          /\ \E edit \in QueuedEdits :
               new.method = edit.method /\ new.body = edit.body
          /\ new.attempts = 0 /\ new.lastError = ""
          /\ \/ new.status = "queued"
             \/ /\ new.status = "syncing"
                /\ ~isProcessing /\ InFlight(passes', n + 1)
          /\ \A k \in 1..n : KeptOrTakenUp(inMemoryQueue, inMemoryQueue', k)
          /\ isProcessing => passes' = passes /\ isProcessing'
          /\ (~isProcessing /\ offline)
               => passes' = passes /\ ~isProcessing'
                  /\ inMemoryQueue' = Append(inMemoryQueue, new)
          /\ (~isProcessing /\ ~offline)
               => /\ isProcessing'
                  /\ \E p \in PassIds :
                       /\ Delivers(p)
                       /\ passes'[p].item = NextItem(inMemoryQueue', 1)
                  /\ reqs'["queue"].pc = "pending"]_vars

\* online, the only entry was enqueued and its delivery is on its way
C23_Witness ==
  /\ ~offline /\ isProcessing
  /\ Len(inMemoryQueue) = 1
  /\ inMemoryQueue[1].status = "syncing" /\ inMemoryQueue[1].attempts = 0
  /\ inMemoryQueue[1].method = "PUT"
  /\ reqs["queue"].pc = "pending"

\* C24: no step changes the method or body of an entry; a delivery sends
\* the entry's method and the body captured when it was enqueued, its
\* version included; and a step changes an entry only if that entry is the
\* one being delivered before or after the step.
C24_PayloadFrame ==
  [][/\ \A k \in 1..Len(inMemoryQueue) :
          /\ inMemoryQueue'[k].method = inMemoryQueue[k].method
          /\ inMemoryQueue'[k].body = inMemoryQueue[k].body
          /\ inMemoryQueue'[k] # inMemoryQueue[k]
               => InFlight(passes, k) \/ InFlight(passes', k)
     /\ \A p \in PassIds :
          Delivers(p) =>
            /\ reqs'["queue"].pc = "pending"
            /\ reqs'["queue"].method = inMemoryQueue'[passes'[p].item].method
            /\ reqs'["queue"].body = inMemoryQueue'[passes'[p].item].body]_vars

\* an update enqueued at version 1 is delivered again, still carrying
\* version 1, while the record is at version 2
C24_Witness ==
  \E k \in 1..Len(inMemoryQueue) :
    /\ InFlight(passes, k)
    /\ inMemoryQueue[k].method = "PUT" /\ inMemoryQueue[k].attempts >= 1
    /\ reqs["queue"].pc = "pending" /\ reqs["queue"].body.version = 1
    /\ products[FormId].exists /\ products[FormId].version = 2

\* C26: no step shortens the queue, and an entry marked synced is, after
\* any step, still at its position and still marked synced.
C26_NothingRemoved ==
  [][/\ Len(inMemoryQueue') >= Len(inMemoryQueue)
     /\ \A k \in 1..Len(inMemoryQueue) :
          inMemoryQueue[k].status = "synced"
            => /\ k <= Len(inMemoryQueue')
               /\ inMemoryQueue'[k].status = "synced"
               /\ inMemoryQueue'[k].method = inMemoryQueue[k].method]_vars

\* every entry has been delivered and all of them are still in the queue
C26_Witness ==
  /\ Len(inMemoryQueue) = MaxQueue
  /\ \A k \in 1..Len(inMemoryQueue) : inMemoryQueue[k].status = "synced"
  /\ ~isProcessing

\* ------------------------------------------------------------------------
\* Termination of a pass (checked under SpecQueueUnanswered)
\* ------------------------------------------------------------------------

\* C27: every pass ends and clears the busy flag - also one whose delivery
\* never gets a response - so the busy flag, once set, is eventually clear.
C27_PassTerminates ==
  isProcessing ~> (~isProcessing \/ AtBound)

\* ------------------------------------------------------------------------
\* Enqueueing during a pass (checked under SpecQueueLive)
\* ------------------------------------------------------------------------

\* C28: an entry enqueued while a pass is running is appended, queued, and
\* the pass goes on undisturbed; entries are first attempted in queue order
\* (no entry has been attempted while an earlier one is still queued); a
\* pass that ends with the client online leaves no entry unattempted; and an
\* entry queued while a pass runs is eventually attempted, unless the client
\* goes offline.
C28_EnqueuedDuringPass ==
  /\ [][(isProcessing /\ Len(inMemoryQueue') > Len(inMemoryQueue)) =>
          /\ inMemoryQueue'[Len(inMemoryQueue')].status = "queued"
          /\ SubSeq(inMemoryQueue', 1, Len(inMemoryQueue)) = inMemoryQueue
          /\ passes' = passes /\ isProcessing']_vars
  /\ [](\A k \in 1..Len(inMemoryQueue) : \A j \in 1..(k - 1) :
          inMemoryQueue[j].status = "queued"
            => inMemoryQueue[k].status = "queued")
  /\ [][\A p \in PassIds :
          (passes[p].pc # "idle" /\ passes'[p].pc = "idle" /\ ~offline)
            => \A k \in 1..Len(inMemoryQueue') :
                 inMemoryQueue'[k].status \in {"synced", "error"}]_vars
  /\ \A k \in 1..MaxQueue :
       (/\ k <= Len(inMemoryQueue)
        /\ inMemoryQueue[k].status = "queued"
        /\ isProcessing)
       ~> (\/ k > Len(inMemoryQueue)
           \/ inMemoryQueue[k].status # "queued"
           \/ offline
           \/ AtBound)

\* the delete behind a delivered update is taken up, for the first time, by
\* the pass that delivered the update
C28_Witness ==
  /\ Len(inMemoryQueue) = 2 /\ isProcessing
  /\ inMemoryQueue[1].method = "PUT" /\ inMemoryQueue[1].status = "synced"
  /\ inMemoryQueue[1].attempts = 0
  /\ inMemoryQueue[2].method = "DELETE" /\ inMemoryQueue[2].status = "syncing"
  /\ inMemoryQueue[2].attempts = 0
  /\ InFlight(passes, 2)

\* ------------------------------------------------------------------------
\* Retries and deletes (checked under SpecQueue)
\* ------------------------------------------------------------------------

\* the positions invocation p leaves behind in this step: those between the
\* entry it was at and the entry it goes on to (the end of the queue, when
\* it ends)
PassedOver(p) ==
  LET to == IF passes'[p].pc = "idle" THEN Len(inMemoryQueue') + 1
            ELSE passes'[p].item
  IN IF passes'[p] = passes[p] THEN {} ELSE (passes[p].item + 1)..(to - 1)

\* C29: there is no retry cap. An entry stays in the queue with attempts
\* never reset, becomes synced only on a 2xx answer to its own delivery, and
\* gains exactly one attempt per failed delivery; a pass that is not stopped
\* by the offline test passes over synced entries only, so an entry in error
\* is delivered again by every such pass whatever its attempts, and the
\* entries behind it are delivered in the same pass.
C29_NoRetryCap ==
  [][/\ \A k \in 1..Len(inMemoryQueue) :
          /\ k <= Len(inMemoryQueue')
          /\ inMemoryQueue'[k].attempts >= inMemoryQueue[k].attempts
          /\ (inMemoryQueue'[k].status = "synced"
                /\ inMemoryQueue[k].status # "synced")
               => /\ InFlight(passes, k)
                  /\ reqs["queue"].pc = "done"
                  /\ reqs["queue"].res.status \in 200..299
          /\ (inMemoryQueue'[k].status = "error"
                /\ inMemoryQueue[k].status # "error")
               => inMemoryQueue'[k].attempts = inMemoryQueue[k].attempts + 1
     /\ \A p \in PassIds :
          ~(offline /\ passes'[p].pc = "idle")
            => \A j \in PassedOver(p) : inMemoryQueue'[j].status = "synced"]_vars

\* the update at the head has been rejected three times and is still in the
\* queue, and the delete behind it is synced
C29_Witness ==
  /\ Len(inMemoryQueue) = 2
  /\ inMemoryQueue[1].method = "PUT" /\ inMemoryQueue[1].status = "error"
  /\ inMemoryQueue[1].attempts >= 3
  /\ inMemoryQueue[2].status = "synced"

====
